---- MODULE Spec2Model ----
(***************************************************************************)
(* Model of preprocessing.py (graph matrix-completion preprocessing):      *)
(* the train/validation/test split strategies (ratio, official-file,       *)
(* pre-masked, book), the label grid, the training adjacency matrix, the   *)
(* process-wide random generator they reseed, row normalization of a       *)
(* feature matrix, and the operations that open files.                     *)
(*                                                                         *)
(* Arrays are sequences (position i of a numpy array is element i+1).      *)
(* A matrix of shape (num_users, num_items) is a function on the flat      *)
(* index u * num_items + v, which is how the code addresses it after       *)
(* reshape([-1]).                                                          *)
(***************************************************************************)
EXTENDS Integers, Sequences, FiniteSets, TLC

VARIABLES data, rng, cache, calls, prev, res, files

vars == <<data, rng, cache, calls, prev, res, files>>

----------------------------------------------------------------------------
(* Bounds of the model. *)

\* raw user ids are 1..NumUsers, raw item ids 1..NumItems
NumUsers == 2
NumItems == 2
\* rating values are 1..MaxRating (0 in a rating matrix M means "no rating")
MaxRating == 2
\* rows of a ratings file / of the loader's result / cells of a mask
MaxRows == 3
\* rows of the filtered book ratings file
BookRows == 10
\* operations the caller runs one after the other
MaxCalls == 2
\* the caller's own draws are taken while the generator position is below this
MaxDraws == 2
\* entries of a feature matrix are 0..MaxFeat
MaxFeat == 2
\* lines of the raw book catalogue scanned by filter_by_features
MaxLines == 3
\* most characters a failing write of the cache file gets out
MaxWritten == 6
\* adjacency matrices handed to one normalization
MaxMats == 2
\* entries of an adjacency matrix are 0..MaxAdj
MaxAdj == 2

----------------------------------------------------------------------------
(* Generic helpers. *)

Min(a, b) == IF a < b THEN a ELSE b

Max(a, b) == IF a > b THEN a ELSE b

\* int(np.ceil(n * num / den)) for n >= 0
\* the count rounded down instead of up
Ceil_floor(n, num, den) == (n * num) \div den

Ceil(n, num, den) == (n * num + den - 1) \div den

\* a slice that also takes the element at its upper bound
PySlice_inclusive(x, a, b) ==
    LET n  == Len(x)
        lo == IF a < 0 THEN Max(a + n, 0) ELSE Min(a, n)
        hi == IF b < 0 THEN Max(b + n, 0) ELSE Min(b, n)
    IN  [k \in 1..(Min(hi + 1, n) - lo) |-> x[lo + k]]

\* Python's x[a:b] on a sequence (negative bounds count from the end)
PySlice(x, a, b) ==
    LET n  == Len(x)
        lo == IF a < 0 THEN Max(a + n, 0) ELSE Min(a, n)
        hi == IF b < 0 THEN Max(b + n, 0) ELSE Min(b, n)
    IN  [k \in 1..(hi - lo) |-> x[lo + k]]

\* x[index_array] (numpy fancy indexing with 0-based positions)
TakeAt(x, index) == [i \in 1..Len(index) |-> x[index[i] + 1]]

Range(x) == {x[i] : i \in 1..Len(x)}

\* the sequences that list each element of S once
Orders(S) == {f \in [1..Cardinality(S) -> S] : Range(f) = S}

SeqsUpTo(S, lo, hi) == UNION {[1..n -> S] : n \in lo..hi}

\* the elements of a set of integers in increasing order
RECURSIVE SortedSeq(_)
SortedSeq(S) ==
    IF S = {} THEN <<>>
    ELSE LET m == CHOOSE x \in S : \A y \in S : x <= y
         IN  <<m>> \o SortedSeq(S \ {m})

----------------------------------------------------------------------------
(* The process-wide random generator (numpy's MT19937 behind np.random).   *)
(* Its state is <<seed, k>>: seeded with `seed`, k 32-bit words drawn      *)
(* since.  The draws of a shuffle of at most 256 elements read only the    *)
(* low byte of each word, so the output stream is tabulated by low bytes.  *)

\* the seed preprocessing.py passes to np.random.seed
SplitSeed == 42

\* the seed create_trainvaltest_split hands to the loader by default; the
\* generator is in this state when the caller starts
LoaderSeed == 1234

MTLowBytes42 ==
    <<102, 179, 92, 14, 106, 71, 188, 20, 102, 121, 210, 214, 74, 202, 87,
      116, 99, 103, 151, 130, 149, 52, 1, 87, 235, 157, 37, 129, 191, 187,
      20, 160>>

MTLowBytes1234 ==
    <<47, 211, 38, 53, 204, 116, 152, 249, 143, 177, 23, 233, 154, 30, 171,
      158, 236, 124, 26, 118, 186, 120, 112, 220, 69, 80, 201, 127, 246, 254,
      175, 50>>

\* low byte of the next word in state st (the tabulated prefix of the stream
\* is read cyclically; a seeded shuffle within the bounds stays inside it)
MTWord(st) ==
    LET tab == IF st[1] = SplitSeed THEN MTLowBytes42 ELSE MTLowBytes1234
    IN  tab[(st[2] % Len(tab)) + 1]

\* smallest 2^k - 1 >= max
RECURSIVE MaskFrom(_, _)
MaskFrom(max, m) == IF m >= max THEN m ELSE MaskFrom(max, 2 * m + 1)

Mask(max) == MaskFrom(max, 0)

\* np.random.seed(v) ignores the old state
seed(st, v) == <<v, 0>>

\* random_interval: uniform draw in 0..max by masked rejection sampling;
\* <<value, state after>>
RECURSIVE rk_interval(_, _)
rk_interval(max, st) ==
    IF max = 0 THEN <<0, st>>
    ELSE LET value == MTWord(st) % (Mask(max) + 1)
             st1   == <<st[1], st[2] + 1>>
         IN  IF value <= max THEN <<value, st1>> ELSE rk_interval(max, st1)

\* np.random.shuffle(x): for i = n-1 down to 1, swap x[i] with x[j],
\* j drawn in 0..i; <<shuffled x, state after>>
RECURSIVE shuffle_from(_, _, _)
shuffle_from(x, i, st) ==
    IF i < 1 THEN <<x, st>>
    ELSE LET d == rk_interval(i, st)
             y == [k \in 1..Len(x) |->
                      IF k = i + 1 THEN x[d[1] + 1]
                      ELSE IF k = d[1] + 1 THEN x[i + 1] ELSE x[k]]
         IN  shuffle_from(y, i - 1, d[2])

shuffle(x, st) == shuffle_from(x, Len(x) - 1, st)

\* range(n)
PyRange(n) == [i \in 1..n |-> i - 1]

----------------------------------------------------------------------------
(* Identifier mapper, class indices, label grid. *)

\* the distinct elements of x in order of first occurrence
RECURSIVE Uniq(_)
Uniq(x) ==
    IF x = <<>> THEN <<>>
    ELSE LET front == Uniq([k \in 1..(Len(x) - 1) |-> x[k]])
             last  == x[Len(x)]
         IN  IF last \in Range(front) THEN front ELSE Append(front, last)

\* map_data(x) of data_utils: dense 0-based indices, numbered by first
\* occurrence; [data, dict, n]
map_data(x) ==
    LET uniq    == Uniq(x)
        id_dict == [raw \in Range(x) |->
                       (CHOOSE i \in 1..Len(uniq) : uniq[i] = raw) - 1]
    IN  [data |-> [i \in 1..Len(x) |-> id_dict[x[i]]],
         dict |-> id_dict,
         n    |-> Len(uniq)]

\* the value that marks "no observed rating" in the label grid
neutral_rating == -1

\* np.sort(np.unique(ratings))
class_values_of(ratings) == SortedSeq(Range(ratings))

\* rating_dict = {r: i for i, r in enumerate(np.sort(np.unique(ratings)))}
rating_dict(ratings) ==
    [r \in Range(ratings) |-> Cardinality({x \in Range(ratings) : x < r})]

\* flat index of cell (u, v)
Flat(u, v, num_items) == u * num_items + v

Cells(num_users, num_items) == 0..(num_users * num_items - 1)

\* a grid that starts from zeros instead of the sentinel
build_labels_zero_fill(num_users, num_items, u_nodes, v_nodes, ratings) ==
    LET rd   == rating_dict(ratings)
        at(c) == {i \in 1..Len(ratings) : Flat(u_nodes[i], v_nodes[i], num_items) = c}
    IN  [c \in Cells(num_users, num_items) |->
            IF at(c) = {} THEN 0
            ELSE rd[ratings[CHOOSE i \in at(c) : \A j \in at(c) : j <= i]]]

\* labels = np.full((num_users, num_items), neutral_rating);
\* labels[u_nodes, v_nodes] = [rating_dict[r] for r in ratings]
\* (a cell written twice keeps the last value); flattened
build_labels(num_users, num_items, u_nodes, v_nodes, ratings) ==
    LET rd   == rating_dict(ratings)
        at(c) == {i \in 1..Len(ratings) : Flat(u_nodes[i], v_nodes[i], num_items) = c}
    IN  [c \in Cells(num_users, num_items) |->
            IF at(c) = {} THEN neutral_rating
            ELSE rd[ratings[CHOOSE i \in at(c) : \A j \in at(c) : j <= i]]]

\* for i in range(len(u_nodes)):
\*     assert labels[u_nodes[i], v_nodes[i]] == rating_dict[ratings[i]]
labels_assert(labels, num_items, u_nodes, v_nodes, ratings) ==
    \A i \in 1..Len(ratings) :
        labels[Flat(u_nodes[i], v_nodes[i], num_items)] = rating_dict(ratings)[ratings[i]]

\* pairs_nonzero = [[u, v] for u, v in zip(u_nodes, v_nodes)]
pairs_of(u_nodes, v_nodes) == [i \in 1..Len(u_nodes) |-> <<u_nodes[i], v_nodes[i]>>]

\* idx_nonzero = [u * num_items + v for u, v in pairs_nonzero]
idx_of(pairs, num_items) == [i \in 1..Len(pairs) |-> Flat(pairs[i][1], pairs[i][2], num_items)]

\* u_idx, v_idx = pairs.transpose()
Col(pairs, k) == [i \in 1..Len(pairs) |-> pairs[i][k]]

\* rating_mx_train = zeros; rating_mx_train[train_idx] = labels[train_idx] + 1
adjacency(labels, train_idx, num_users, num_items) ==
    [c \in Cells(num_users, num_items) |->
        IF c \in Range(train_idx) THEN labels[c] + 1 ELSE 0]

----------------------------------------------------------------------------
(* What a call leaves behind: the returned tuple (status "ok") or the      *)
(* raised error, with the label grid and the steps performed before the    *)
(* exit as observations of the run.                                        *)

NoArrays ==
    [train_idx |-> <<>>, val_idx |-> <<>>, test_idx |-> <<>>,
     u_train_idx |-> <<>>, v_train_idx |-> <<>>, train_labels |-> <<>>,
     u_val_idx |-> <<>>, v_val_idx |-> <<>>, val_labels |-> <<>>,
     u_test_idx |-> <<>>, v_test_idx |-> <<>>, test_labels |-> <<>>,
     rating_mx_train |-> <<>>]

Outcome(op, testing, status, steps, num_users, num_items, labels, class_values, arrays) ==
    [op |-> op, testing |-> testing, status |-> status, steps |-> steps,
     num_users |-> num_users, num_items |-> num_items, labels |-> labels,
     class_values |-> class_values, out |-> arrays]

NoRun == Outcome("none", FALSE, "none", <<>>, 0, 0, <<>>, <<>>, NoArrays)

\* labels[idx] on the flattened grid
labels_at(labels, idx) == [i \in 1..Len(idx) |-> labels[idx[i]]]

\* if testing: x_train = np.hstack([x_train, x_val])
merge_val(train, val, testing) == IF testing THEN train \o val ELSE train

\* the tail shared by every strategy: labels of each part, the testing
\* merge, the training adjacency matrix
finish(labels, num_users, num_items, testing, train_idx, val_idx, test_idx, train_pairs, val_pairs, test_pairs) ==
    LET train_idx_m == merge_val(train_idx, val_idx, testing)
    IN  [train_idx    |-> train_idx_m,
         val_idx      |-> val_idx,
         test_idx     |-> test_idx,
         u_train_idx  |-> merge_val(Col(train_pairs, 1), Col(val_pairs, 1), testing),
         v_train_idx  |-> merge_val(Col(train_pairs, 2), Col(val_pairs, 2), testing),
         train_labels |-> merge_val(labels_at(labels, train_idx),
                                    labels_at(labels, val_idx), testing),
         u_val_idx    |-> Col(val_pairs, 1),
         v_val_idx    |-> Col(val_pairs, 2),
         val_labels   |-> labels_at(labels, val_idx),
         u_test_idx   |-> Col(test_pairs, 1),
         v_test_idx   |-> Col(test_pairs, 2),
         test_labels  |-> labels_at(labels, test_idx),
         rating_mx_train |-> adjacency(labels, train_idx_m, num_users, num_items)]

----------------------------------------------------------------------------
(* Ratio split: create_trainvaltest_split.                                 *)
(* t is the tuple the loader (or the cache file) yields:                   *)
(* [num_users, num_items, u_nodes, v_nodes, ratings].                      *)

\* load_data(dataset, seed): the loader's tuple for the data on disk (the
\* side features are objects of the loader that the split passes through)
ratio_records(d) ==
    [num_users |-> NumUsers, num_items |-> NumItems,
     u_nodes |-> Col(d.rows, 1), v_nodes |-> Col(d.rows, 2), ratings |-> Col(d.rows, 3),
     u_features |-> "u_features", v_features |-> "v_features"]

\* lines 146-199: label grid, counts, slices, testing merge, adjacency
split_tuple(t, testing, steps) ==
    LET n         == Len(t.ratings)
        labels    == build_labels(t.num_users, t.num_items, t.u_nodes, t.v_nodes, t.ratings)
        num_test  == Ceil(n, 1, 10)
        num_val   == Ceil(n, 45, 1000)
        num_train == n - num_val - num_test
        pairs     == pairs_of(t.u_nodes, t.v_nodes)
        idx       == idx_of(pairs, t.num_items)
        arrays    == finish(labels, t.num_users, t.num_items, testing,
                            PySlice(idx, 0, num_train),
                            PySlice(idx, num_train, num_train + num_val),
                            PySlice(idx, num_train + num_val, n),
                            PySlice(pairs, 0, num_train),
                            PySlice(pairs, num_train, num_train + num_val),
                            PySlice(pairs, num_train + num_val, n))
    IN  IF n = 0
        THEN \* pairs_nonzero is a 1-d empty array: unpacking its transpose fails
             Outcome("ratio", testing, "ValueError", steps \o <<"labels">>,
                     t.num_users, t.num_items, labels, <<>>, NoArrays)
        ELSE Outcome("ratio", testing, "ok", steps \o <<"labels", "split">>,
                     t.num_users, t.num_items, labels, class_values_of(t.ratings), arrays)

\* The cache file at datasplit_path.  pkl.dump writes the tuple as text in
\* cPickle's default protocol 0; how cPickle, numpy and scipy spell the
\* index arrays and the feature matrices is no part of this program, so a
\* file is held as the tuple it was written from together with how much of
\* the text got out: the whole of it, or its first `written` characters.

\* pkl.dump([num_users, num_items, u_nodes, v_nodes, ratings, u_features,
\* v_features], f) into the file just opened with mode 'w': the write runs
\* to its end, or it raises after `written` characters
pkl_dump(t, fault) ==
    IF fault.at = "dump" THEN [whole |-> FALSE, tuple |-> t, written |-> fault.written]
    ELSE [whole |-> TRUE, tuple |-> t]

\* the errors of an unpickler whose text stops early, according to where it
\* stops: EOFError when an opcode is due at the end, UnpicklingError
\* ("pickle data was truncated") when the line of an opcode is cut to fewer
\* than two characters, AttributeError or ImportError inside the name line
\* of a GLOBAL opcode (the opcode that spells an array object), ValueError
\* inside a quoted string or the line of a float
TruncationErrors ==
    {"EOFError", "UnpicklingError", "AttributeError", "ImportError", "ValueError"}

\* num_users, ..., v_features = pkl.load(f): the tuple of a whole text; a
\* text that stops early fails.  The text of the list starts "(lp1\n": cut
\* to "", "(" or "(l" an opcode is due (EOFError), cut to "(lp" or "(lp1"
\* the memo line is short (UnpicklingError), cut right after the newline
\* an opcode is due again; further on the error is the one, err, that the
\* place of the cut gives
pkl_load(content, err) ==
    IF content.whole THEN [status |-> "ok", t |-> content.tuple]
    ELSE IF content.written \in {0, 1, 2, 5} THEN [status |-> "EOFError"]
    ELSE IF content.written \in {3, 4} THEN [status |-> "UnpicklingError"]
    ELSE [status |-> err]

\* what can go wrong outside the function's own code when it loads the
\* data and writes the cache: nothing, the loader raising, the write of the
\* cache failing after `written` characters
Faults ==
    {[at |-> "none", written |-> 0], [at |-> "load", written |-> 0]}
        \cup {[at |-> "dump", written |-> k] : k \in 0..MaxWritten}

\* line 128: the cache file is read instead
reads_cache(c, datasplit_path, datasplit_from_file) ==
    datasplit_from_file /\ datasplit_path # "None" /\ c # <<>>

Failed(testing, status, steps) ==
    Outcome("ratio", testing, status, steps, 0, 0, <<>>, <<>>, NoArrays)

\* datasplit_path: the default None, or the path of the cache file
CachePath == "split.pickle"

Paths == {"None", CachePath}

\* lines 129-137: the tuple read from the cache file goes on to the split,
\* the error of pkl.load ends the run
read_cache(loaded, c, testing) ==
    IF loaded.status = "ok"
    THEN [res |-> split_tuple(loaded.t, testing, <<"read_cache">>), cache |-> c]
    ELSE [res |-> Failed(testing, loaded.status, <<"read_cache">>), cache |-> c]

\* [res: the outcome, cache: the file at datasplit_path afterwards]
create_trainvaltest_split(d, c, testing, datasplit_path, datasplit_from_file, fault, err) ==
    IF datasplit_from_file /\ datasplit_path = "None"
    THEN \* os.path.isfile(None)
         [res |-> Failed(testing, "TypeError", <<>>), cache |-> c]
    ELSE IF reads_cache(c, datasplit_path, datasplit_from_file)
    THEN \* with open(datasplit_path) as f: ... = pkl.load(f)
         read_cache(pkl_load(c[1], err), c, testing)
    ELSE IF fault.at = "load"
    THEN \* load_data raises before the cache file is opened
         [res |-> Failed(testing, "IOError", <<"load">>), cache |-> c]
    ELSE IF datasplit_path = "None"
    THEN \* open(None, 'w') after load_data has returned
         [res |-> Failed(testing, "TypeError", <<"load", "dump">>), cache |-> c]
    ELSE IF fault.at = "dump"
    THEN \* open(datasplit_path, 'w') has emptied the file; pkl.dump raises
         \* after part of the text is written
         [res |-> Failed(testing, "IOError", <<"load", "dump">>),
          cache |-> <<pkl_dump(ratio_records(d), fault)>>]
    ELSE [res |-> split_tuple(ratio_records(d), testing, <<"load", "dump">>),
          cache |-> <<pkl_dump(ratio_records(d), fault)>>]

----------------------------------------------------------------------------
(* The carve shared by the official-file, pre-masked and book splits:      *)
(* reseed, shuffle the training part, put the test part behind it, cut     *)
(* validation off the front.                                               *)

\* rand_idx = range(n); np.random.seed(42); np.random.shuffle(rand_idx)
\* <<rand_idx, generator state after>>
rand_idx_unseeded(n, st) == shuffle(PyRange(n), st)

rand_idx_of(n, st) == shuffle(PyRange(n), seed(st, SplitSeed))

\* x_train = x_train[rand_idx]; x = np.concatenate([x_train, x_test])
reassemble_test_first(x_train, x_test, rand_idx) == x_test \o TakeAt(x_train, rand_idx)

reassemble(x_train, x_test, rand_idx) == TakeAt(x_train, rand_idx) \o x_test

\* a carve that shuffles the flat indices and leaves the pairs in file order
carve_pairs_unshuffled(labels, num_users, num_items, testing, num_train, num_val, idx_nonzero_train, idx_nonzero_test, pairs_nonzero_train, pairs_nonzero_test, rand_idx) ==
    LET idx_nonzero   == reassemble(idx_nonzero_train, idx_nonzero_test, rand_idx)
        pairs_nonzero == pairs_nonzero_train \o pairs_nonzero_test
    IN  finish(labels, num_users, num_items, testing,
               PySlice(idx_nonzero, num_val, num_train + num_val),
               PySlice(idx_nonzero, 0, num_val),
               PySlice(idx_nonzero, num_train + num_val, Len(idx_nonzero)),
               PySlice(pairs_nonzero, num_val, num_train + num_val),
               PySlice(pairs_nonzero, 0, num_val),
               PySlice(pairs_nonzero, num_train + num_val, Len(pairs_nonzero)))

carve(labels, num_users, num_items, testing, num_train, num_val, idx_nonzero_train, idx_nonzero_test, pairs_nonzero_train, pairs_nonzero_test, rand_idx) ==
    LET idx_nonzero   == reassemble(idx_nonzero_train, idx_nonzero_test, rand_idx)
        pairs_nonzero == reassemble(pairs_nonzero_train, pairs_nonzero_test, rand_idx)
    IN  finish(labels, num_users, num_items, testing,
               PySlice(idx_nonzero, num_val, num_train + num_val),
               PySlice(idx_nonzero, 0, num_val),
               PySlice(idx_nonzero, num_train + num_val, Len(idx_nonzero)),
               PySlice(pairs_nonzero, num_val, num_train + num_val),
               PySlice(pairs_nonzero, 0, num_val),
               PySlice(pairs_nonzero, num_train + num_val, Len(pairs_nonzero)))

----------------------------------------------------------------------------------------------------------------------------------------
(* Official-file split: load_official_trainvaltest_split.                  *)
(* d.train and d.test are the rows <<user id, item id, rating>> of u1.base *)
(* and u1.test, d.dataset the dataset name.                                *)

FeatureDatasets == {"ml_100k", "ml_1m"}

\* the dataset dispatch of the feature stage: every other name reaches the
\* else branch that raises ValueError
dataset_known(dataset) == dataset \in FeatureDatasets

\* the rating records of a ratings file pair, train rows first, with dense
\* indices: what the code holds after map_data
rows_records(data_array) ==
    LET um == map_data(Col(data_array, 1))
        vm == map_data(Col(data_array, 2))
    IN  [num_users |-> um.n, num_items |-> vm.n,
         u_nodes |-> um.data, v_nodes |-> vm.data, ratings |-> Col(data_array, 3),
         u_dict |-> um.dict, v_dict |-> vm.dict]

official_records(d) == rows_records(d.train \o d.test)

\* from the records to the carved arrays, for num_source_train training rows
\* at the front of the records
split_rows(t, num_source_train, testing, rand_idx) ==
    LET labels    == build_labels(t.num_users, t.num_items, t.u_nodes, t.v_nodes, t.ratings)
        num_val   == Ceil(num_source_train, 1, 5)
        num_train == num_source_train - num_val
        pairs     == pairs_of(t.u_nodes, t.v_nodes)
        idx       == idx_of(pairs, t.num_items)
    IN  carve(labels, t.num_users, t.num_items, testing, num_train, num_val,
              PySlice(idx, 0, num_train + num_val),
              PySlice(idx, num_train + num_val, Len(idx)),
              PySlice(pairs, 0, num_train + num_val),
              PySlice(pairs, num_train + num_val, Len(pairs)),
              rand_idx)

load_official_trainvaltest_split(d, testing, st) ==
    LET t      == official_records(d)
        labels == build_labels(t.num_users, t.num_items, t.u_nodes, t.v_nodes, t.ratings)
        r      == rand_idx_of(Len(d.train), st)
    IN  IF ~labels_assert(labels, t.num_items, t.u_nodes, t.v_nodes, t.ratings)
        THEN [res |-> Outcome("official", testing, "AssertionError",
                              <<"download", "read", "labels">>,
                              t.num_users, t.num_items, labels, <<>>, NoArrays),
              rng |-> st]
        ELSE IF ~dataset_known(d.dataset)
        THEN [res |-> Outcome("official", testing, "ValueError",
                              <<"download", "read", "labels", "split", "dataset">>,
                              t.num_users, t.num_items, labels, <<>>, NoArrays),
              rng |-> r[2]]
        ELSE [res |-> Outcome("official", testing, "ok",
                              <<"download", "read", "labels", "split", "dataset", "features">>,
                              t.num_users, t.num_items, labels, class_values_of(t.ratings),
                              split_rows(t, Len(d.train), testing, r[1])),
              rng |-> r[2]]

----------------------------------------------------------------------------
(* Pre-masked split: load_data_monti.                                      *)
(* d.M is the rating matrix on the flat cells (0: no rating), d.Otraining  *)
(* and d.Otest the sets of cells the masks mark, d.fields what the         *)
(* container holds under each field name, d.dataset the dataset name.      *)

\* what a field of the matrix container is: a dense dataset, a sparse group
\* (ir, jc, data), a group without ir, a group with ir but without data
FieldKinds == {"absent", "dense", "sparse", "group", "sparse_no_data"}

FieldNames == {"M", "Otraining", "Otest"}

\* the side matrices of the three datasets
SideFieldNames == {"W_users", "W_movies", "W_tracks"}

\* db = h5py.File(path_file); ds = db[name_field]; try: ... except
\* AttributeError: ...; db.close(); return out
\* [status, open: the handles left open]
load_matlab_file(fields, name_field) ==
    CASE fields[name_field] = "absent" ->
             \* db[name_field] raises before the try block
             [status |-> "KeyError", open |-> {"db"}]
      [] fields[name_field] = "dense" ->
             \* ds.keys() raises AttributeError, which the except clause handles
             [status |-> "ok", open |-> {}]
      [] fields[name_field] = "sparse" ->
             [status |-> "ok", open |-> {}]
      [] fields[name_field] = "group" ->
             \* no branch assigns out: return out fails after db.close()
             [status |-> "UnboundLocalError", open |-> {}]
      [] fields[name_field] = "sparse_no_data" ->
             \* ds['data'] raises KeyError inside the try block
             [status |-> "KeyError", open |-> {"db"}]

\* the datasets whose side matrices load_data_monti knows
MontiFeatureDatasets == {"flixster", "douban", "yahoo_music"}

\* the fields load_data_monti reads, in the order it reads them
monti_fields(dataset) ==
    <<"M", "Otraining", "Otest">> \o
        (CASE dataset = "flixster"    -> <<"W_users", "W_movies">>
           [] dataset = "douban"      -> <<"W_users">>
           [] dataset = "yahoo_music" -> <<"W_tracks">>
           [] OTHER                   -> <<>>)

\* the calls of load_matlab_file in order, up to the first that raises
RECURSIVE load_fields(_, _)
load_fields(fields, names) ==
    IF names = <<>> THEN [status |-> "ok", open |-> {}]
    ELSE LET o == load_matlab_file(fields, names[1])
         IN  IF o.status # "ok" THEN o
             ELSE load_fields(fields, [k \in 1..(Len(names) - 1) |-> names[k + 1]])


\* np.where(X): the marked cells in row-major order
where(S) == SortedSeq(S)

\* pairs [u, v] of a sequence of flat cells
cell_pairs(cells, num_items) ==
    [i \in 1..Len(cells) |-> <<cells[i] \div num_items, cells[i] % num_items>>]

\* u_nodes, v_nodes = np.where(M); ratings = M[np.where(M)]
monti_records(d) ==
    LET cells == where({c \in DOMAIN d.M : d.M[c] # 0})
    IN  [num_users |-> d.num_users, num_items |-> d.num_items,
         u_nodes |-> Col(cell_pairs(cells, d.num_items), 1),
         v_nodes |-> Col(cell_pairs(cells, d.num_items), 2),
         ratings |-> [i \in 1..Len(cells) |-> d.M[cells[i]]]]

load_data_monti(d, testing, st) ==
    LET loaded    == load_fields(d.fields, monti_fields(d.dataset))
        t         == monti_records(d)
        labels    == build_labels(t.num_users, t.num_items, t.u_nodes, t.v_nodes, t.ratings)
        pairs_tr  == cell_pairs(where(d.Otraining), t.num_items)
        pairs_te  == cell_pairs(where(d.Otest), t.num_items)
        num_val   == Ceil(Len(pairs_tr), 1, 5)
        num_train == Len(pairs_tr) - num_val
        r         == rand_idx_of(Len(pairs_tr), st)
    IN  IF loaded.status # "ok"
        THEN \* a load_matlab_file call raised: nothing was computed yet
             [res |-> Outcome("monti", testing, loaded.status, <<"read">>,
                              0, 0, <<>>, <<>>, NoArrays),
              rng |-> st, open |-> loaded.open]
        ELSE IF ~labels_assert(labels, t.num_items, t.u_nodes, t.v_nodes, t.ratings)
        THEN [res |-> Outcome("monti", testing, "AssertionError", <<"read", "labels">>,
                              t.num_users, t.num_items, labels, <<>>, NoArrays),
              rng |-> st, open |-> {}]
        ELSE IF d.dataset \notin MontiFeatureDatasets
        THEN \* no branch assigned u_features: "if u_features is not None"
             \* raises after the split and the adjacency matrix were built
             [res |-> Outcome("monti", testing, "UnboundLocalError",
                              <<"read", "labels", "split">>,
                              t.num_users, t.num_items, labels, <<>>, NoArrays),
              rng |-> r[2], open |-> {}]
        ELSE [res |-> Outcome("monti", testing, "ok", <<"read", "labels", "split", "features">>,
                              t.num_users, t.num_items, labels, class_values_of(t.ratings),
                              carve(labels, t.num_users, t.num_items, testing, num_train, num_val,
                                    idx_of(pairs_tr, t.num_items), idx_of(pairs_te, t.num_items),
                                    pairs_tr, pairs_te, r[1])),
              rng |-> r[2], open |-> {}]

----------------------------------------------------------------------------
(* Book split: load_data_books, with edit_book_files and                   *)
(* filter_by_features, which it runs when its input files are missing.     *)
(* d.stage tells which files exist: "filtered" (the three _filtered files),*)
(* "new" (isbn_dictionary.csv and the three _new files), "original" (only  *)
(* the BX files). d.rows are the rows <<user, book, rating>> of the        *)
(* ratings file of that stage, d.catalog the rows <<book, author>> of its  *)
(* catalogue, d.id_kind how pandas reads the catalogue's ISBN column       *)
(* ("int": every entry is a number; "str": text), d.author_order the order *)
(* in which set(authors) is enumerated. In stage "original" d.lines are    *)
(* the lines of BX-Books.csv, line i being the book that d.rows calls i    *)
(* and d.line_authors[i] its author, and d.users are the rows              *)
(* <<user, age is valid>> of BX-Users.csv.                                 *)

\* a line of BX-Books.csv, by what the scan does with it: a record it
\* writes, a line with another number of fields or the header (skipped), a
\* record whose author cannot be decoded (skipped), a record of eight fields
\* whose author or year field holds no doubled quote
LineKinds == {"record", "short", "header", "undecodable", "unquoted"}

\* the scan of the catalogue between the opening and the closing of
\* old_book_f and new_book_f: only UnicodeEncodeError and UnicodeDecodeError
\* are caught, the IndexError of split('""')[1] is not
RECURSIVE scan_books(_)
scan_books(lines) ==
    IF lines = <<>> THEN "ok"
    ELSE IF lines[1] = "unquoted" THEN "IndexError"
    ELSE scan_books([k \in 1..(Len(lines) - 1) |-> lines[k + 1]])

\* new_user_f is closed after the user scan; the two book files are closed
\* after the catalogue scan; new_matrix_f after the ratings scan; the two
\* dictionary files are opened by with-statements
filter_by_features(lines) ==
    IF scan_books(lines) = "ok"
    THEN [status |-> "ok", open |-> {}]
    ELSE [status |-> scan_books(lines), open |-> {"old_book_f", "new_book_f"}]

\* x[mask]: the elements at the 0-based positions in S, in their order
rows_at(x, S) == [k \in 1..Cardinality(S) |-> x[SortedSeq(S)[k] + 1]]

\* np.random.seed(42); np.random.choice(arange(n), n // 10, replace=False),
\* which is permutation(n)[:n // 10]; <<test indices, generator state after>>
test_indices_of(n, st) ==
    LET p == rand_idx_of(n, st) IN <<Range(PySlice(p[1], 0, n \div 10)), p[2]>>

\* data_train = matrix_source[~mask]; data_test = matrix_source[mask]
books_train(d, st) == rows_at(d.rows, (0..(Len(d.rows) - 1)) \ test_indices_of(Len(d.rows), st)[1])

books_test(d, st) == rows_at(d.rows, test_indices_of(Len(d.rows), st)[1])

books_records(d, st) == rows_records(books_train(d, st) \o books_test(d, st))

\* author_dict = {f: i for i, f in enumerate(set(authors), start=2)}
author_dict(author_order) ==
    [a \in Range(author_order) |->
        (CHOOSE i \in 1..Len(author_order) : author_order[i] = a) + 1]

\* num_book_feats = 1 + len(author_dict)
num_book_feats(author_order) == 1 + Len(author_order)

\* data_array[:, 1].astype(np.str): the keys of v_dict are strings
astype_str(x) == <<"str", x>>

\* row['ISBN'] as pandas read it: a number in a column of numbers, else text
read_isbn(id_kind, x) == <<id_kind, x>>

\* the feature loop writes v_features[v_dict[v_id], author_dict[author]] for
\* every catalogue row whose v_id is a key of v_dict: the columns it writes
book_columns_written(catalog, id_kind, v_dict, author_order) ==
    {author_dict(author_order)[catalog[i][2]] :
        i \in {j \in 1..Len(catalog) :
                  read_isbn(id_kind, catalog[j][1]) \in {astype_str(k) : k \in DOMAIN v_dict}}}

\* 0.00005 as a fraction: 1 / KeepDenominator
KeepDenominator == 20000

\* the counts c, up to 64, for which c additions of the double
\* 1. / (KeepDenominator * c) to 0 end above the double 0.00005; for every
\* other count the sum ends at or below it
SumAboveAtTie ==
    {6, 7, 8, 12, 14, 16, 21, 24, 25, 26, 27, 28, 29, 30, 39, 40, 42, 44, 45, 48,
     53, 54, 55, 56, 58, 62, 64}

\* counts[u] > 0.00005 after the c-th row of user u: the running sum of
\* doubles is on the side of 0.00005 on which c / previous_book_count is,
\* and where the two are equal the rounding of the sum decides
count_above(c, previous_book_count) ==
    \/ c * KeepDenominator > previous_book_count
    \/ c * KeepDenominator = previous_book_count /\ c \in SumAboveAtTie

\* counts[u] += 1. / previous_book_count for each row in turn; the row is
\* kept when counts[u] > 0.00005: the 0-based positions of the kept rows
kept_positions(rows, previous_book_count) ==
    {i - 1 : i \in {j \in 1..Len(rows) :
        count_above(Cardinality({k \in 1..j : rows[k][1] = rows[j][1]}), previous_book_count)}}

\* user_dict of filter_by_features: the users of valid age, numbered in
\* file order
user_dict(users) ==
    LET valid == SortedSeq({i \in 1..Len(users) : users[i][2]})
    IN  [u \in {users[valid[k]][1] : k \in 1..Len(valid)} |->
            (CHOOSE k \in 1..Len(valid) : users[valid[k]][1] = u) - 1]

\* isbn_to_idx of filter_by_features: the record lines, numbered in order
isbn_to_idx(lines) ==
    LET recs == SortedSeq({i \in 1..Len(lines) : lines[i] = "record"})
    IN  [b \in Range(recs) |-> (CHOOSE k \in 1..Len(recs) : recs[k] = b) - 1]

\* BX-Books_new.csv: a row [idx, author, year] for every record line
new_catalog(lines, line_authors) ==
    LET recs == SortedSeq({i \in 1..Len(lines) : lines[i] = "record"})
    IN  [k \in 1..Len(recs) |-> <<k - 1, line_authors[recs[k]]>>]

\* BX-Book-Ratings_new.csv: the rows of a valid book, a valid user and a
\* non-zero rating, with both ids replaced by their new numbers
new_ratings(rows, lines, users) ==
    LET keep == rows_at(rows, {i - 1 : i \in {j \in 1..Len(rows) :
                    /\ rows[j][2] \in DOMAIN isbn_to_idx(lines)
                    /\ rows[j][1] \in DOMAIN user_dict(users)
                    /\ rows[j][3] # 0}})
    IN  [i \in 1..Len(keep) |->
            <<user_dict(users)[keep[i][1]], isbn_to_idx(lines)[keep[i][2]], keep[i][3]>>]

\* The book files: d.on_disk names the groups of files that exist (the
\* "original" BX files, the "new" files with isbn_dictionary.csv, the
\* "filtered" files), d.stage the latest of them, d.rows and d.catalog the
\* ratings and the catalogue of that stage.

\* filter_by_features() run on the files of d: the BX files are opened
\* first; a run after the one that wrote the _new files writes them again
\* as they are; [status, open: handles left open, data: the files afterwards]
filter_book_files(d) ==
    IF "original" \notin d.on_disk
    THEN [status |-> "IOError", open |-> {}, data |-> d]
    ELSE IF d.stage # "original"
    THEN [status |-> "ok", open |-> {}, data |-> d]
    ELSE IF filter_by_features(d.lines).status # "ok"
    THEN [status |-> filter_by_features(d.lines).status,
          open |-> filter_by_features(d.lines).open, data |-> d]
    ELSE [status |-> "ok", open |-> {},
          data |-> [d EXCEPT !.stage = "new", !.on_disk = @ \cup {"new"},
                             !.rows = new_ratings(d.rows, d.lines, d.users),
                             !.catalog = new_catalog(d.lines, d.line_authors)]]

\* previous_book_count = float(len(np.unique(book_matrix['ISBN'])))
previous_book_count(book_matrix) ==
    Cardinality({book_matrix[i][1] : i \in 1..Len(book_matrix)})

\* the three _filtered files that edit_book_files writes from the _new
\* files of n; the catalogue it writes numbers the books
filtered_files(n, author_order) ==
    LET rating_matrix == n.rows
        book_matrix   == n.catalog
        filtered_rating_mat == rows_at(rating_matrix,
                                   kept_positions(rating_matrix, previous_book_count(book_matrix)))
        remaining_books     == {filtered_rating_mat[i][2] : i \in 1..Len(filtered_rating_mat)}
        filtered_books_mat  == rows_at(book_matrix,
                                   {i - 1 : i \in {j \in 1..Len(book_matrix) :
                                       book_matrix[j][1] \in remaining_books}})
    IN  [n EXCEPT !.stage = "filtered", !.on_disk = @ \cup {"filtered"},
                  !.rows = filtered_rating_mat, !.catalog = filtered_books_mat,
                  !.id_kind = "int", !.author_order = author_order]

\* edit_book_files(): runs filter_by_features when isbn_dictionary.csv is
\* missing, then writes the three _filtered files from the _new files (a
\* run after the one that wrote them writes them again as they are);
\* [status, open: handles left open, data: the files afterwards]
edit_book_files(d, author_order) ==
    LET f == IF "new" \in d.on_disk THEN [status |-> "ok", open |-> {}, data |-> d]
             ELSE filter_book_files(d)
        n == f.data
    IN  IF f.status # "ok"
        THEN [status |-> f.status, open |-> f.open, data |-> n]
        ELSE IF n.stage = "filtered"
        THEN [status |-> "ok", open |-> {}, data |-> n]
        ELSE IF n.rows # <<>> /\ previous_book_count(n.catalog) = 0
        THEN \* 1. / previous_book_count
             [status |-> "ZeroDivisionError", open |-> {}, data |-> n]
        ELSE [status |-> "ok", open |-> {}, data |-> filtered_files(n, author_order)]

\* load_data_books from the reading of BX-Book-Ratings_filtered.csv on;
\* pre: the steps before it
split_books(d, testing, st, pre) ==
    LET st1    == test_indices_of(Len(d.rows), st)[2]
        t      == books_records(d, st)
        labels == build_labels(t.num_users, t.num_items, t.u_nodes, t.v_nodes, t.ratings)
        r      == rand_idx_of(Len(books_train(d, st)), st1)
    IN  IF books_test(d, st) = <<>>
        THEN \* np.concatenate of a 2-d array with an empty 1-d array
             [res |-> Outcome("books", testing, "ValueError", pre \o <<"read">>,
                              0, 0, <<>>, <<>>, NoArrays),
              rng |-> st1]
        ELSE IF ~labels_assert(labels, t.num_items, t.u_nodes, t.v_nodes, t.ratings)
        THEN [res |-> Outcome("books", testing, "AssertionError", pre \o <<"read", "labels">>,
                              t.num_users, t.num_items, labels, <<>>, NoArrays),
              rng |-> st1]
        ELSE IF d.catalog = <<>>
        THEN \* year.max() of an empty column
             [res |-> Outcome("books", testing, "ValueError",
                              pre \o <<"read", "labels", "split", "features">>,
                              t.num_users, t.num_items, labels, <<>>, NoArrays),
              rng |-> r[2]]
        ELSE IF \E col \in book_columns_written(d.catalog, d.id_kind, t.v_dict, d.author_order) :
                    col >= num_book_feats(d.author_order)
        THEN [res |-> Outcome("books", testing, "IndexError",
                              pre \o <<"read", "labels", "split", "features">>,
                              t.num_users, t.num_items, labels, <<>>, NoArrays),
              rng |-> r[2]]
        ELSE [res |-> Outcome("books", testing, "ok",
                              pre \o <<"read", "labels", "split", "features">>,
                              t.num_users, t.num_items, labels, class_values_of(t.ratings),
                              split_rows(t, Len(books_train(d, st)), testing, r[1])),
              rng |-> r[2]]

\* the orders in which set() can enumerate the authors of the catalogue
\* that load_data_books reads
author_orders(d) ==
    IF d.stage = "filtered" THEN {d.author_order}
    ELSE IF edit_book_files(d, <<>>).status # "ok" THEN {<<>>}
    ELSE LET catalog == edit_book_files(d, <<>>).data.catalog
         IN  Orders({catalog[i][2] : i \in 1..Len(catalog)})

\* load_data_books(testing): edit_book_files() first when
\* BX-Book-Ratings_filtered.csv is missing; author_order is the order in
\* which set() enumerates the authors of the catalogue that is then read;
\* [res, rng, open: handles left open, data: the input files afterwards]
load_data_books(d, author_order, testing, st) ==
    IF d.stage = "filtered"
    THEN split_books(d, testing, st, <<>>) @@ [open |-> {}, data |-> d]
    ELSE IF edit_book_files(d, author_order).status # "ok"
    THEN [res |-> Outcome("books", testing, edit_book_files(d, author_order).status, <<"edit">>,
                          0, 0, <<>>, <<>>, NoArrays),
          rng |-> st, open |-> edit_book_files(d, author_order).open,
          data |-> edit_book_files(d, author_order).data]
    ELSE split_books(edit_book_files(d, author_order).data, testing, st, <<"edit">>)
             @@ [open |-> {}, data |-> edit_book_files(d, author_order).data]

----------------
(* Inputs. *)

\* a row of a ratings file: <<raw user id, raw item id, rating>>
FileRows == (1..NumUsers) \X (1..NumItems) \X (1..MaxRating)

DatasetNames == {"ml_100k", "ml_1m", "ml_10m"}

\* u1.base and u1.test, both non-empty (pandas refuses an empty file)
OfficialInputs ==
    {[kind |-> "official", dataset |-> ds, train |-> tr, test |-> te] :
        ds \in DatasetNames,
        <<tr, te>> \in {p \in SeqsUpTo(FileRows, 1, MaxRows - 1) \X SeqsUpTo(FileRows, 1, MaxRows - 1) :
                           Len(p[1]) + Len(p[2]) <= MaxRows}}

\* what load_data returns: dense indices, the loader's order
LoaderRows == (0..(NumUsers - 1)) \X (0..(NumItems - 1)) \X (1..MaxRating)

RatioInputs ==
    {[kind |-> "ratio", rows |-> rows] : rows \in SeqsUpTo(LoaderRows, 0, MaxRows)}

AllDense == [n \in FieldNames \cup SideFieldNames |-> "dense"]

\* the containers load_data_monti is run on besides the all-dense one: one
\* field is of another kind (the three matrices are never stored sparse)
MontiContainers ==
    {[AllDense EXCEPT ![p[1]] = p[2]] :
        p \in {q \in (FieldNames \cup SideFieldNames) \X (FieldKinds \ {"dense"}) :
                  q[1] \in FieldNames => q[2] # "sparse"}}

MontiDatasets == MontiFeatureDatasets \cup {"ml_100k"}

\* M with its two observation masks, which are non-empty and disjoint
MontiContents ==
    {[M |-> m, Otraining |-> p[1], Otest |-> p[2]] :
        m \in [Cells(NumUsers, NumItems) -> 0..MaxRating],
        p \in {q \in (SUBSET Cells(NumUsers, NumItems)) \X (SUBSET Cells(NumUsers, NumItems)) :
                  /\ q[1] # {} /\ q[2] # {} /\ q[1] \cap q[2] = {}
                  /\ Cardinality(q[1]) + Cardinality(q[2]) <= MaxRows}}

\* a constant M with one training and one test cell
SmallMontiContents ==
    {[M |-> [cell \in Cells(NumUsers, NumItems) |-> r], Otraining |-> {0}, Otest |-> {t}] :
        r \in 0..MaxRating, t \in Cells(NumUsers, NumItems) \ {0}}

MontiInput(c, ds, f) ==
    [kind |-> "monti", num_users |-> NumUsers, num_items |-> NumItems,
     M |-> c.M, Otraining |-> c.Otraining, Otest |-> c.Otest, dataset |-> ds, fields |-> f]

\* every content on a complete container of a dataset with side matrices;
\* the small contents with every dataset name and every container
MontiInputs ==
    {MontiInput(c, "douban", AllDense) : c \in MontiContents}
        \cup {MontiInput(c, ds, f) : c \in SmallMontiContents, ds \in MontiDatasets,
                                      f \in MontiContainers \cup {AllDense}}

\* the filtered book ratings: BookRows rows over distinct (user, book) pairs,
\* or with row 2 repeating the pair of row 1; the ratings of the first two
\* rows are free
BookRowsOf(rt, dup) ==
    [i \in 1..BookRows |->
        <<IF dup /\ i = 2 THEN 1 ELSE ((i - 1) % NumUsers) + 1,
          IF dup /\ i = 2 THEN 1 ELSE ((i - 1) \div NumUsers) + 1,
          IF i <= 2 THEN rt[i] ELSE (i % MaxRating) + 1>>]

Authors == {"a", "b"}

\* catalogue rows: book 1 is rated, book 0 is in no rating row
CatalogRows == {0, 1} \X Authors

\* a catalogue with the orders in which its authors can be enumerated
Catalogues(lo) ==
    {p \in SeqsUpTo(CatalogRows, lo, 2) \X SeqsUpTo(Authors, 0, 2) :
        p[2] \in Orders({p[1][i][2] : i \in 1..Len(p[1])})}

\* the three _filtered files exist
FilteredBookInputs ==
    {[kind |-> "books", stage |-> "filtered", on_disk |-> {"filtered"}, rows |-> BookRowsOf(rt, dup),
      catalog |-> p[1], author_order |-> p[2], id_kind |-> ik,
      lines |-> <<>>, line_authors |-> <<>>, users |-> <<>>] :
        rt \in [1..2 -> 1..MaxRating], dup \in BOOLEAN, ik \in {"int", "str"},
        p \in Catalogues(1)}

\* only the _new files and isbn_dictionary.csv exist; the catalogue that
\* filter_by_features wrote numbers the books
NewBookInputs ==
    {[kind |-> "books", stage |-> "new", on_disk |-> {"new"}, rows |-> BookRowsOf(rt, dup),
      catalog |-> cat, author_order |-> <<>>, id_kind |-> "int",
      lines |-> <<>>, line_authors |-> <<>>, users |-> <<>>] :
        rt \in [1..2 -> 1..MaxRating], dup \in BOOLEAN,
        cat \in SeqsUpTo(CatalogRows, 0, 2)}

\* the books of BX-Books.csv: one line for each book of the ratings, at
\* most one of them not a record
BookLines == ((BookRows - 1) \div NumUsers) + 1

OriginalLines ==
    {l \in [1..BookLines -> LineKinds] : Cardinality({i \in 1..BookLines : l[i] # "record"}) <= 1}

\* only the BX files exist; a rating may be 0, the first user's age invalid
OriginalBookInputs ==
    {[kind |-> "books", stage |-> "original", on_disk |-> {"original"}, rows |-> BookRowsOf(rt, FALSE),
      catalog |-> <<>>, author_order |-> <<>>, id_kind |-> "int",
      lines |-> l, line_authors |-> [i \in 1..BookLines |-> IF same \/ i % 2 = 1 THEN "a" ELSE "b"],
      users |-> [u \in 1..NumUsers |-> <<u, u > 1 \/ valid>>]] :
        rt \in [1..2 -> 0..MaxRating], l \in OriginalLines, same \in BOOLEAN, valid \in BOOLEAN}

\* none of the book files exists
NoBookInputs ==
    {[kind |-> "books", stage |-> "original", on_disk |-> {}, rows |-> <<>>,
      catalog |-> <<>>, author_order |-> <<>>, id_kind |-> "int",
      lines |-> <<>>, line_authors |-> <<>>, users |-> <<>>]}

BookInputs == FilteredBookInputs \cup NewBookInputs \cup OriginalBookInputs \cup NoBookInputs

----------------------------------------------------------------------------
(* The split operations as steps of one process: each call runs to its     *)
(* return or its error; prev and res hold the last two outcomes.           *)

Init ==
    /\ data \in OfficialInputs \cup RatioInputs \cup MontiInputs \cup BookInputs
    /\ rng = <<LoaderSeed, 0>>
    /\ cache = <<>>
    /\ calls = 0
    /\ prev = NoRun
    /\ res = NoRun
    /\ files = {}

\* create_trainvaltest_split(dataset, testing, datasplit_path, datasplit_from_file);
\* cache is the file at the path the callers share: <<>> while there is
\* none, <<content>> once it was opened for writing
RunRatio(testing, datasplit_path, datasplit_from_file) ==
    /\ data.kind = "ratio"
    /\ calls < MaxCalls
    /\ \E fault \in IF reads_cache(cache, datasplit_path, datasplit_from_file)
                      THEN {[at |-> "none", written |-> 0]} ELSE Faults,
          err \in IF reads_cache(cache, datasplit_path, datasplit_from_file)
                    THEN TruncationErrors ELSE {"none"} :
           \E o \in {create_trainvaltest_split(data, cache, testing, datasplit_path,
                                                datasplit_from_file, fault, err)} :
               res' = o.res /\ cache' = o.cache
    /\ prev' = res
    /\ calls' = calls + 1
    /\ UNCHANGED <<data, rng, files>>

RunOfficial(testing) ==
    /\ data.kind = "official"
    /\ calls < MaxCalls
    /\ LET o == load_official_trainvaltest_split(data, testing, rng)
       IN  res' = o.res /\ rng' = o.rng
    /\ prev' = res
    /\ calls' = calls + 1
    /\ UNCHANGED <<data, cache, files>>

RunMonti(testing) ==
    /\ data.kind = "monti"
    /\ calls < MaxCalls
    /\ \E o \in {load_data_monti(data, testing, rng)} :
           res' = o.res /\ rng' = o.rng /\ files' = files \cup o.open
    /\ prev' = res
    /\ calls' = calls + 1
    /\ UNCHANGED <<data, cache>>

RunBooks(testing) ==
    /\ data.kind = "books"
    /\ calls < MaxCalls
    /\ \E author_order \in author_orders(data) :
           \E o \in {load_data_books(data, author_order, testing, rng)} :
               res' = o.res /\ rng' = o.rng /\ files' = files \cup o.open /\ data' = o.data
    /\ prev' = res
    /\ calls' = calls + 1
    /\ UNCHANGED cache

\* edit_book_files() called on its own: it returns nothing, the files change
EditBookFiles ==
    /\ data.kind = "books"
    /\ \E author_order \in author_orders(data) :
           \E o \in {edit_book_files(data, author_order)} :
               data' = o.data /\ files' = files \cup o.open
    /\ UNCHANGED <<rng, cache, calls, prev, res>>

\* filter_by_features() called on its own: the dictionaries it returns are
\* those of isbn_dictionary.csv and user_dictionary.csv
FilterBookFiles ==
    /\ data.kind = "books"
    /\ \E o \in {filter_book_files(data)} :
           data' = o.data /\ files' = files \cup o.open
    /\ UNCHANGED <<rng, cache, calls, prev, res>>

\* the caller draws one word from the process-wide generator
CallerDraw ==
    /\ rng[2] < MaxDraws
    /\ rng' = <<rng[1], rng[2] + 1>>
    /\ UNCHANGED <<data, cache, calls, prev, res, files>>

Next ==
    \/ \E testing \in BOOLEAN, path \in Paths, from_file \in BOOLEAN :
           RunRatio(testing, path, from_file)
    \/ \E testing \in BOOLEAN : RunOfficial(testing)
    \/ \E testing \in BOOLEAN : RunMonti(testing)
    \/ \E testing \in BOOLEAN : RunBooks(testing)
    \/ EditBookFiles
    \/ FilterBookFiles
    \/ CallerDraw

Spec == Init /\ [][Next]_vars

----------------------------------------------------------------------------
(* Row normalization: normalize_features.                                  *)
(* A matrix is a sequence of rows; a normalized entry is the exact         *)
(* fraction <<numerator, denominator>> in lowest terms.                    *)

RECURSIVE SumSeq(_)
SumSeq(x) == IF x = <<>> THEN 0 ELSE x[1] + SumSeq([k \in 1..(Len(x) - 1) |-> x[k + 1]])

RECURSIVE GCD(_, _)
GCD(a, b) == IF b = 0 THEN a ELSE GCD(b, a % b)

Frac(num, den) == IF num = 0 THEN <<0, 1>> ELSE <<num \div GCD(num, den), den \div GCD(num, den)>>

\* degree[degree == 0.] = np.inf; degree_inv = 1. / degree; row i of
\* degree_inv_mat.dot(feat): a zero row sum divides by infinity
normalized_row(row) ==
    [j \in 1..Len(row) |->
        IF SumSeq(row) = 0 THEN <<0, 1>> ELSE Frac(row[j], SumSeq(row))]

\* feat_norm.nnz
nnz(m) == Cardinality({<<i, j>> \in (1..Len(m)) \X (1..Len(m[1])) : m[i][j][1] # 0})

ZeroDiagnostic == "ERROR: normalized adjacency matrix has only zero entries!!!!!"

\* the diagnostic is printed; the statement after it is the bare name
\* `exit`, which is not a call, so the function goes on to return feat_norm
normalize_features(feat) ==
    LET feat_norm == [i \in 1..Len(feat) |-> normalized_row(feat[i])]
    IN  [op |-> "normalize_features", status |-> "ok",
         printed |-> IF nnz(feat_norm) = 0 THEN <<ZeroDiagnostic>> ELSE <<>>,
         value |-> feat_norm]

\* Symmetric bipartite normalization: globally_normalize_bipartite_adjacency.
\* The arithmetic is IEEE 754 binary floating point, every operation rounded
\* to nearest, ties to even, in the precision p of the matrices (53 bits in
\* float64, 24 in float32).  A number is zero, infinity, or m * 2^e with the
\* whole number m of exactly p bits; m is written in base 2^14 = 16384,
\* least significant limb first.  The numbers met here are positive and of
\* moderate size: no underflow, no overflow.
FZero == [cls |-> "zero", m |-> <<>>, e |-> 0]

\* x * y of two whole numbers in base 16384, in Len(x) + Len(y) limbs
big_mul(x, y) ==
    LET RECURSIVE col(_, _)
        col(k, i) ==
            IF i > Len(x) THEN 0
            ELSE (IF k + 1 - i \in 1..Len(y) THEN x[i] * y[k + 1 - i] ELSE 0) + col(k, i + 1)
        RECURSIVE carry(_, _)
        RECURSIVE emit(_, _)
        carry(k, c) == IF k > Len(x) + Len(y) THEN <<>> ELSE emit(k, col(k, 1) + c)
        emit(k, s) == <<s % 16384>> \o carry(k + 1, s \div 16384)
    IN  carry(1, 0)

\* floor(n * 2^s) in `limbs` limbs (s may be negative)
big_shift(n, s, limbs) ==
    LET bit(k) == IF k < 0 \/ k >= 14 * Len(n) THEN 0
                  ELSE (n[(k \div 14) + 1] \div (2^(k % 14))) % 2
        RECURSIVE bits(_, _)
        bits(k, b) == IF b = 14 THEN 0 ELSE bit(k + b) * 2^b + bits(k, b + 1)
    IN  [j \in 1..limbs |-> bits(14 * (j - 1) - s, 0)] \o <<>>

\* the float nearest to n * 2^e (n > 0 a whole number in base 16384; sticky:
\* the exact value lies above n * 2^e by less than 2^e), ties to even
fl_round(n, e, sticky, p) ==
    LET limbs == (p + 13) \div 14
        len(top) == 14 * (top - 1) + (CHOOSE b \in 1..14 : 2^(b - 1) <= n[top] /\ n[top] < 2^b)
        RECURSIVE inc(_, _, _)
        inc(q, j, c) == IF j > Len(q) THEN <<>>
                        ELSE <<(q[j] + c) % 16384>> \o inc(q, j + 1, (q[j] + c) \div 16384)
        pack(q, ex) == IF q[limbs] >= 2^(p - 14 * (limbs - 1))
                       THEN [cls |-> "num", m |-> big_shift(q, -1, limbs), e |-> ex + 1]
                       ELSE [cls |-> "num", m |-> q, e |-> ex]
        cut(s) ==
            LET half == s >= 1 /\ big_shift(n, 1 - s, 1)[1] % 2 = 1
                odd  == big_shift(n, -s, 1)[1] % 2 = 1
                rest == \/ sticky
                        \/ /\ s >= 2
                           /\ big_shift(big_shift(n, 1 - s, Len(n)), s - 1, Len(n)) # big_shift(n, 0, Len(n))
            IN  pack(inc(big_shift(n, -s, limbs), 1, IF half /\ (rest \/ odd) THEN 1 ELSE 0), e + s)
    IN  cut(len(CHOOSE k \in 1..Len(n) : n[k] # 0 /\ \A h \in (k + 1)..Len(n) : n[h] = 0) - p)

\* the float of a small whole number
fl_int(n, p) == IF n = 0 THEN FZero ELSE fl_round(<<n % 16384, n \div 16384>>, 0, FALSE, p)

\* x * y, rounded
fl_mul(x, y, p) ==
    IF x.cls = "zero" \/ y.cls = "zero" THEN FZero
    ELSE fl_round(big_mul(x.m, y.m), x.e + y.e, FALSE, p)

\* the greatest whole number q of at most k + 1 bits with q * y <= n (with
\* q * q * y <= n when square), found bit by bit from bit k down, in five
\* runs of 14 bits
big_floor(n, y, square, limbs, k) ==
    LET leq(z) ==
            LET at(w, j) == IF j <= Len(w) THEN w[j] ELSE 0
                D == {j \in 1..Max(Len(z), Len(n)) : at(z, j) # at(n, j)}
            IN  D = {} \/ \E j \in D : at(z, j) < at(n, j) /\ \A h \in D : h <= j
        RECURSIVE go(_, _, _)
        RECURSIVE try(_, _, _, _)
        go(q, b, stop) ==
            IF b < stop \/ b < 0 THEN q
            ELSE try(q, b, stop, [j \in 1..limbs |-> IF j = (b \div 14) + 1 THEN q[j] + 2^(b % 14) ELSE q[j]] \o <<>>)
        try(q, b, stop, c) ==
            IF leq(big_mul(IF square THEN big_mul(c, c) ELSE c, y))
            THEN go(c, b - 1, stop) ELSE go(q, b - 1, stop)
    IN  go(go(go(go(go([j \in 1..limbs |-> 0] \o <<>>, k, k - 13), k - 14, k - 27),
                 k - 28, k - 41), k - 42, k - 55), k - 56, 0)

\* np.sqrt(x), rounded: the root of m * 2^t to p + 2 bits, t making the
\* exponent even, then rounded to p bits; the root of infinity is infinity
fl_sqrt(x, p) ==
    LET limbs == (p + 15) \div 14
        done(n, r, t) == fl_round(r, (x.e - t) \div 2, big_mul(r, r) # n, p)
        root(n, t) == done(n, big_floor(n, <<1>>, TRUE, limbs, p + 1), t)
        scaled(t) == root(big_shift(x.m, t, 2 * limbs), t)
    IN  IF x.cls # "num" THEN x
        ELSE scaled(IF (x.e - (p + 3)) % 2 = 0 THEN p + 3 ELSE p + 4)

\* x / y, rounded: the quotient of m_x * 2^(p + 2) by m_y, then rounded to
\* p bits; a division by infinity is 0
fl_div(x, y, p) ==
    LET limbs == (p + 15) \div 14
        done(n, q) == fl_round(q, x.e - y.e - (p + 2), big_mul(q, y.m) # n, p)
        quot(n) == done(n, big_floor(n, y.m, FALSE, limbs, p + 2))
    IN  IF x.cls = "zero" \/ y.cls = "inf" THEN FZero
        ELSE IF y.cls = "zero" THEN [cls |-> "inf", m |-> <<>>, e |-> 0]
        ELSE quot(big_shift(x.m, p + 2, 2 * limbs))

\* degree[degree == 0.] = np.inf; 1. / np.sqrt(degree): the value for every
\* precision p and every degree d a row or column can have
degree_inv_sqrt ==
    [p \in {24, 53} |->
        [d \in 0..(MaxMats * MaxAdj * Max(NumUsers, NumItems)) |->
            fl_div(fl_int(1, p),
                   fl_sqrt(IF d = 0 THEN [cls |-> "inf", m |-> <<>>, e |-> 0] ELSE fl_int(d, p), p),
                   p)]]

\* adj_tot = np.sum(adj for adj in adjacencies), taking only the first matrix
adj_tot_first(adjacencies) == adjacencies[1]

\* adj_tot = np.sum(adj for adj in adjacencies)
adj_tot_of(adjacencies) ==
    [i \in 1..Len(adjacencies[1]) |->
        [j \in 1..Len(adjacencies[1][1]) |->
            SumSeq([k \in 1..Len(adjacencies) |-> adjacencies[k][i][j]])]]

\* degree_u = adj_tot.sum(1)
degree_u_of(adj_tot) == [i \in 1..Len(adj_tot) |-> SumSeq(adj_tot[i])]

\* degree_v = adj_tot.sum(0)
degree_v_of(adj_tot) ==
    [j \in 1..Len(adj_tot[1]) |-> SumSeq([i \in 1..Len(adj_tot) |-> adj_tot[i][j]])]

\* one entry of degree_u_inv_sqrt_mat.dot(adj).dot(degree_v_inv_sqrt_mat), the
\* products taken left to right, for every precision p, input entry a and
\* degrees du, dv; an entry that is 0 is not stored and stays 0
sym_entry ==
    [p \in {24, 53} |->
        [a \in 0..MaxAdj |->
            [du \in DOMAIN degree_inv_sqrt[p] |->
                [dv \in DOMAIN degree_inv_sqrt[p] |->
                    fl_mul(fl_mul(degree_inv_sqrt[p][du], fl_int(a, p), p),
                           degree_inv_sqrt[p][dv], p)]]]]

\* one entry of degree_u_inv.dot(adj), degree_u_inv being
\* degree_u_inv_sqrt_mat.dot(degree_u_inv_sqrt_mat)
asym_entry ==
    [p \in {24, 53} |->
        [a \in 0..MaxAdj |->
            [du \in DOMAIN degree_inv_sqrt[p] |->
                fl_mul(fl_mul(degree_inv_sqrt[p][du], degree_inv_sqrt[p][du], p),
                       fl_int(a, p), p)]]]

globally_normalize_bipartite_adjacency(adjacencies, dtype, symmetric) ==
    LET adj_tot  == adj_tot_of(adjacencies)
        degree_u == degree_u_of(adj_tot)
        degree_v == degree_v_of(adj_tot)
        p        == IF dtype = "float64" THEN 53 ELSE 24
    IN  [k \in 1..Len(adjacencies) |->
            [i \in 1..Len(adjacencies[k]) |->
                [j \in 1..Len(adjacencies[k][i]) |->
                    IF symmetric
                    THEN sym_entry[p][adjacencies[k][i][j]][degree_u[i]][degree_v[j]]
                    ELSE asym_entry[p][adjacencies[k][i][j]][degree_u[i]]]]]

\* lists of one to MaxMats matrices of one shape, entries 0..MaxAdj
AdjInputs ==
    {[kind |-> "adj", dtype |-> dt, adjacencies |-> l] :
        dt \in {"float32", "float64"},
        l \in SeqsUpTo([1..NumUsers -> [1..NumItems -> 0..MaxAdj]], 1, MaxMats)}

FeatInputs ==
    {[kind |-> "feat", feat |-> f] : f \in [1..NumUsers -> [1..NumItems -> 0..MaxFeat]]}

InitNorm ==
    /\ data \in FeatInputs \cup AdjInputs
    /\ rng = <<LoaderSeed, 0>>
    /\ cache = <<>>
    /\ calls = 0
    /\ prev = NoRun
    /\ res = NoRun
    /\ files = {}

NormalizeFeatures ==
    /\ data.kind = "feat"
    /\ calls < MaxCalls
    /\ res' = normalize_features(data.feat)
    /\ calls' = calls + 1
    /\ UNCHANGED <<data, rng, cache, prev, files>>

GloballyNormalize(symmetric) ==
    /\ data.kind = "adj"
    /\ calls < MaxCalls
    /\ res' = [op |-> "globally_normalize_bipartite_adjacency", status |-> "ok",
               symmetric |-> symmetric,
               value |-> globally_normalize_bipartite_adjacency(data.adjacencies, data.dtype, symmetric)]
    /\ calls' = calls + 1
    /\ UNCHANGED <<data, rng, cache, prev, files>>

NextNorm ==
    \/ NormalizeFeatures
    \/ \E symmetric \in BOOLEAN : GloballyNormalize(symmetric)

SpecNorm == InitNorm /\ [][NextNorm]_vars

----------------------------------------------------------------------------
(* Operations that open files: load_matlab_file and filter_by_features.    *)
(* files is the set of handles that are open.                              *)

MatInputs == {[kind |-> "mat", fields |-> f] : f \in [FieldNames -> FieldKinds]}

BxInputs == {[kind |-> "bx", lines |-> l] : l \in SeqsUpTo(LineKinds, 0, MaxLines)}

InitFiles ==
    /\ data \in MatInputs \cup BxInputs
    /\ rng = <<LoaderSeed, 0>>
    /\ cache = <<>>
    /\ calls = 0
    /\ prev = NoRun
    /\ res = NoRun
    /\ files = {}

LoadMatlabFile(name_field) ==
    /\ data.kind = "mat"
    /\ calls < MaxCalls
    /\ LET o == load_matlab_file(data.fields, name_field)
       IN  /\ res' = [op |-> "load_matlab_file", status |-> o.status, name_field |-> name_field]
           /\ files' = files \cup o.open
    /\ calls' = calls + 1
    /\ UNCHANGED <<data, rng, cache, prev>>

FilterByFeatures ==
    /\ data.kind = "bx"
    /\ calls < MaxCalls
    /\ LET o == filter_by_features(data.lines)
       IN  /\ res' = [op |-> "filter_by_features", status |-> o.status, name_field |-> ""]
           /\ files' = files \cup o.open
    /\ calls' = calls + 1
    /\ UNCHANGED <<data, rng, cache, prev>>

NextFiles ==
    \/ \E name_field \in FieldNames : LoadMatlabFile(name_field)
    \/ FilterByFeatures

SpecFiles == InitFiles /\ [][NextFiles]_vars

----------------------------------------------------------------------------
(* Vocabulary of the properties. *)

\* the rating records of the input, as the operation that reads it sees them
Records ==
    CASE data.kind = "ratio"    -> ratio_records(data)
      [] data.kind = "official" -> official_records(data)
      [] data.kind = "monti"    -> monti_records(data)
      [] data.kind = "books"    -> books_records(data, rng)

\* the flat cell of record i
RecordCell(t, i) == Flat(t.u_nodes[i], t.v_nodes[i], t.num_items)

\* the observed (user, item) pairs are distinct
DistinctPairs ==
    \A i, j \in 1..Len(Records.ratings) :
        RecordCell(Records, i) = RecordCell(Records, j) => i = j

\* flat indices of returned parallel user/item index arrays
FlatOf(o, u_idx, v_idx) == [i \in 1..Len(u_idx) |-> Flat(u_idx[i], v_idx[i], o.num_items)]

TrainFlat(o) == FlatOf(o, o.out.u_train_idx, o.out.v_train_idx)

ValFlat(o) == FlatOf(o, o.out.u_val_idx, o.out.v_val_idx)

TestFlat(o) == FlatOf(o, o.out.u_test_idx, o.out.v_test_idx)

\* the call returned its tuple
Returned(o) == o.status = "ok"

\* the call built its label grid before it ended
GridBuilt(o) == \E k \in 1..Len(o.steps) : o.steps[k] = "labels"

----------------------------------------------------------------------------
(* C1: with testing off and distinct observed pairs, the ratio split and   *)
(* the official-file split return train, validation and test edges whose   *)
(* flat indices are pairwise disjoint, cover exactly the observed edges,   *)
(* and whose sizes sum to the number of observed edges.                    *)
C1_Partition ==
    (Returned(res) /\ ~res.testing /\ res.op \in {"ratio", "official"} /\ DistinctPairs) =>
        LET tr == Range(TrainFlat(res))
            va == Range(ValFlat(res))
            te == Range(TestFlat(res))
            n  == Len(Records.ratings)
        IN  /\ tr \cap va = {} /\ tr \cap te = {} /\ va \cap te = {}
            /\ tr \cup va \cup te = {RecordCell(Records, i) : i \in 1..n}
            /\ Len(res.out.u_train_idx) + Len(res.out.u_val_idx) + Len(res.out.u_test_idx) = n
            /\ Cardinality(tr) + Cardinality(va) + Cardinality(te) = n

\* an official-file split of distinct pairs with all three parts non-empty
C1_Witness ==
    /\ Returned(res) /\ ~res.testing /\ res.op = "official" /\ DistinctPairs
    /\ res.out.u_train_idx # <<>> /\ res.out.u_val_idx # <<>> /\ res.out.u_test_idx # <<>>
    /\ Len(data.train) >= 2

----------------------------------------------------------------------------
(* C2: for every split strategy, a testing=True run on the input of a      *)
(* testing=False run returns train label, user-index and item-index arrays *)
(* whose length is the testing=False train length plus the validation      *)
(* length, the validation entries appended after the train entries, and a  *)
(* training adjacency matrix that holds class index + 1 at every           *)
(* validation edge: 1 + the position of the edge's rating among the sorted *)
(* distinct ratings.                                                       *)
\* the class indices of the rating of validation edge i of the run o: in the
\* ratio split the edge is the input record that follows the train records;
\* in the other splits it is the records rated at the edge's cell
ValClasses(o, i) ==
    LET rd == rating_dict(Records.ratings)
    IN  IF o.op = "ratio"
        THEN {rd[Records.ratings[Len(o.out.u_train_idx) + i]]}
        ELSE {rd[Records.ratings[k]] :
                 k \in {h \in 1..Len(Records.ratings) : RecordCell(Records, h) = ValFlat(o)[i]}}

C2_TestingMerges ==
    (Returned(prev) /\ Returned(res) /\ ~prev.testing /\ res.testing) =>
        /\ res.out.train_labels = prev.out.train_labels \o prev.out.val_labels
        /\ res.out.u_train_idx = prev.out.u_train_idx \o prev.out.u_val_idx
        /\ res.out.v_train_idx = prev.out.v_train_idx \o prev.out.v_val_idx
        /\ Len(res.out.train_labels) = Len(prev.out.train_labels) + Len(prev.out.val_labels)
        /\ \A i \in 1..Len(prev.out.val_labels) :
               \E k \in ValClasses(prev, i) :
                   res.out.rating_mx_train[ValFlat(prev)[i]] = k + 1

----------------------------------------------------------------------------
(* C3: in the official-file split and the pre-masked split the returned    *)
(* test edges are exactly the test-source edges (the rows of the test      *)
(* file, the cells of Otest) in their original order.                      *)
TestSource ==
    CASE data.kind = "official" ->
             [i \in 1..Len(data.test) |->
                 <<official_records(data).u_dict[data.test[i][1]],
                   official_records(data).v_dict[data.test[i][2]]>>]
      [] data.kind = "monti"    -> cell_pairs(where(data.Otest), data.num_items)

C3_TestOrderKept ==
    (Returned(res) /\ res.op \in {"official", "monti"}) =>
        /\ res.out.u_test_idx = Col(TestSource, 1)
        /\ res.out.v_test_idx = Col(TestSource, 2)
        /\ res.out.test_labels = labels_at(res.labels, idx_of(TestSource, res.num_items))

\* a returned run whose shuffle moved the second training row to the front
\* (it became the validation edge) while the test rows stayed where they were
C3_Witness ==
    /\ Returned(res) /\ res.op = "official"
    /\ Len(data.train) = 2 /\ Len(data.test) >= 1
    /\ data.train[1] # data.train[2]
    /\ res.out.u_val_idx = <<official_records(data).u_dict[data.train[2][1]]>>
    /\ res.out.v_val_idx = <<official_records(data).v_dict[data.train[2][2]]>>

----------------------------------------------------------------------------
(* C4: two runs of the official-file, pre-masked or book split with the    *)
(* same testing flag on the same input end the same way and return the     *)
(* same arrays, whatever state the process-wide generator is in when each  *)
(* run starts.                                                             *)
C4_Reproducible ==
    (prev.op \in {"official", "monti", "books"} /\ res.op = prev.op
        /\ prev.testing = res.testing) =>
            /\ prev.status = res.status
            /\ prev.out = res.out

\* two returned runs over a training source of at least two edges: the
\* first starts from the caller's generator state, the second from the
\* state the first (and the caller's draws) left
C4_Witness ==
    /\ prev.op = "official" /\ res.op = "official" /\ prev.testing = res.testing
    /\ Returned(prev) /\ Returned(res)
    /\ Len(data.train) >= 2
    /\ rng[1] = SplitSeed

----------------------------------------------------------------------------
(* C5: with testing off and distinct observed pairs, every cell of the     *)
(* returned training adjacency matrix holds class index + 1 (at least 1)   *)
(* if it is a train edge and 0 otherwise; the cells of validation and test *)
(* edges hold 0.                                                           *)
\* the class indices of the ratings recorded at cell c
ClassesAt(c) ==
    {rating_dict(Records.ratings)[Records.ratings[i]] :
        i \in {h \in 1..Len(Records.ratings) : RecordCell(Records, h) = c}}

C5_AdjacencyOnlyTrain ==
    (Returned(res) /\ ~res.testing /\ DistinctPairs) =>
        /\ \A c \in Cells(res.num_users, res.num_items) :
               IF c \in Range(TrainFlat(res))
               THEN /\ \E k \in ClassesAt(c) : res.out.rating_mx_train[c] = k + 1
                    /\ res.out.rating_mx_train[c] >= 1
               ELSE res.out.rating_mx_train[c] = 0
        /\ \A c \in Range(ValFlat(res)) \cup Range(TestFlat(res)) : res.out.rating_mx_train[c] = 0

----------------------------------------------------------------------------
(* C6: once the label grid is built, every cell without an observed rating *)
(* holds the sentinel -1, every cell with an observed rating holds the     *)
(* class index of a rating observed there, which lies in 0..K-1 for K      *)
(* distinct rating values, and the sentinel is no class index.             *)
C6_SentinelGrid ==
    GridBuilt(res) =>
        LET t  == Records
            rd == rating_dict(t.ratings)
            K  == Cardinality(Range(t.ratings))
        IN  /\ DOMAIN res.labels = Cells(t.num_users, t.num_items)
            /\ \A c \in Cells(t.num_users, t.num_items) :
                   LET at == {i \in 1..Len(t.ratings) : RecordCell(t, i) = c}
                   IN  IF at = {} THEN res.labels[c] = -1
                       ELSE /\ res.labels[c] \in {rd[t.ratings[i]] : i \in at}
                            /\ res.labels[c] \in 0..(K - 1)
            /\ -1 \notin 0..(K - 1)

\* a grid with an unobserved cell and two classes
C6_Witness ==
    /\ GridBuilt(res)
    /\ \E c \in DOMAIN res.labels : res.labels[c] = -1
    /\ \E c \in DOMAIN res.labels : res.labels[c] = 1

----------------------------------------------------------------------------
(* C7: in every split strategy, if the label grid holds for some input     *)
(* record a label other than the class index of that record's rating, the  *)
(* run ends in an error and returns nothing.                               *)
LabelMismatch ==
    \E i \in 1..Len(Records.ratings) :
        res.labels[RecordCell(Records, i)] # rating_dict(Records.ratings)[Records.ratings[i]]

C7_MismatchAborts == (GridBuilt(res) /\ LabelMismatch) => ~Returned(res)

----------------------------------------------------------------------------
(* C9: the official-file split called with a dataset name other than       *)
(* ml_100k and ml_1m ends in the invalid-dataset error before any file is  *)
(* downloaded or read and before any split is computed, and returns        *)
(* nothing.                                                                *)
C9_InvalidDatasetFirst ==
    (res.op = "official" /\ ~dataset_known(data.dataset)) =>
        /\ res.status = "ValueError"
        /\ res.steps = <<>>
        /\ res.out = NoArrays

----------------------------------------------------------------------------
(* C8: when normalize_features yields a matrix without a nonzero entry, it *)
(* prints a diagnostic and ends in an error; it does not return the        *)
(* all-zero matrix as a normal result.                                     *)
C8_ZeroResultIsError ==
    (res.op = "normalize_features" /\ nnz(res.value) = 0) =>
        /\ res.printed # <<>>
        /\ res.status # "ok"

----------------------------------------------------------------------------
(* C10: when an operation that opens files has ended, normally or in an    *)
(* error, every file it opened is closed.                                  *)
C10_FilesClosedOnExit ==
    res.op \in {"load_matlab_file", "filter_by_features"} => files = {}

----------------------------------------------------------------------------
(* C11: a run of the official-file split, the pre-masked split or the book *)
(* split leaves the process-wide random generator in the state it found    *)
(* it in, so the caller's later draws are those it would have made had the *)
(* split not run.                                                          *)
C11_GeneratorUntouched ==
    [][(calls' = calls + 1 /\ res'.op \in {"official", "monti", "books"}) => rng' = rng]_vars

----------------------------------------------------------------------------
(* C13: cache read/write is all-or-nothing: a cache file that exists holds *)
(* the complete seven-field tuple, and a ratio-split run that fails while  *)
(* loading the data or while writing the tuple leaves the file at          *)
(* datasplit_path as it was (no new file, no truncated file that a later   *)
(* run with datasplit_from_file=True reads in place of the loader, an      *)
(* earlier cache intact).                                                  *)
\* the file, if there is one, holds the whole text that pkl.dump writes for
\* the loader's tuple
CacheComplete(c) == c # <<>> => (c[1].whole /\ c[1].tuple = ratio_records(data))

\* the run failed in the loader or in the write of the cache
FailedLoadOrDump(o) ==
    /\ o.op = "ratio" /\ o.status = "IOError"
    /\ \E k \in 1..Len(o.steps) : o.steps[k] = "load"

C13_CacheAllOrNothing ==
    [][/\ data.kind = "ratio" => CacheComplete(cache')
       /\ (calls' = calls + 1 /\ FailedLoadOrDump(res')) =>
              /\ cache' = cache
              /\ reads_cache(cache', CachePath, TRUE) => CacheComplete(cache')]_vars

----------------------------------------------------------------------------
(* C14, vocabulary: the degrees of row i and column j, taken over all the  *)
(* input matrices, the two matrices of the example, and the float nearest  *)
(* to a / sqrt(d).                                                         *)
RowDeg(i) ==
    SumSeq([k \in 1..Len(data.adjacencies) |-> SumSeq(data.adjacencies[k][i])])

ColDeg(j) ==
    SumSeq([k \in 1..Len(data.adjacencies) |->
               SumSeq([i \in 1..Len(data.adjacencies[k]) |-> data.adjacencies[k][i][j]])])

ExampleInput == <<<<<<1, 0>>, <<0, 1>>>>, <<<<0, 1>>, <<1, 0>>>>>>

SymmetricRun == res.op = "globally_normalize_bipartite_adjacency" /\ res.symmetric

Entries == {<<k, i, j>> \in (1..Len(data.adjacencies)) \X (1..NumUsers) \X (1..NumItems) : TRUE}

Precision == IF data.dtype = "float64" THEN 53 ELSE 24

\* a / sqrt(d) correctly rounded: the greatest whole r with r * r * d <=
\* a * a * 2^(2 * (p + 5)), then r * 2^-(p + 5) rounded to p bits
NearestQuotient(a, d, p) ==
    LET limbs == (p + 20) \div 14
        done(n, r) == fl_round(r, -(p + 5), big_mul(big_mul(r, r), <<d>>) # n, p)
        root(n) == done(n, big_floor(n, <<d>>, TRUE, limbs, p + 6))
    IN  root(big_shift(<<a * a>>, 2 * (p + 5), 2 * limbs + 1))

\* 1/2, 0.4999999999999999 (the second double below 1/2) and 0.49999997
\* (the single-precision float just below 1/2)
Half(p) == [cls |-> "num", m |-> [j \in 1..((p + 13) \div 14) |-> IF j = (p + 13) \div 14 THEN 2^((p - 1) % 14) ELSE 0], e |-> -p]

BelowHalf64 == [cls |-> "num", m |-> <<16382, 16383, 16383, 2047>>, e |-> -54]

BelowHalf32 == [cls |-> "num", m |-> <<16383, 1023>>, e |-> -25]

(* C14 as stated: in symmetric mode every output entry equals the input    *)
(* entry divided by sqrt(rowdeg_i * coldeg_j) (read as: is the float       *)
(* nearest to that quotient), degrees taken from the sum of all inputs; an *)
(* entry in a zero-degree row or column stays 0; for [[1,0],[0,1]] and     *)
(* [[0,1],[1,0]] every nonzero entry of each output is 1/2 and every zero  *)
(* entry stays 0.                                                          *)
C14_SymmetricExact ==
    SymmetricRun =>
        \A e \in Entries :
            LET a == data.adjacencies[e[1]][e[2]][e[3]]
                v == res.value[e[1]][e[2]][e[3]]
            IN  /\ IF a = 0 \/ RowDeg(e[2]) = 0 \/ ColDeg(e[3]) = 0
                   THEN v = FZero
                   ELSE v = NearestQuotient(a, RowDeg(e[2]) * ColDeg(e[3]), Precision)
                /\ (data.adjacencies = ExampleInput /\ a # 0) => v = Half(Precision)

(* C14 as amended: in symmetric mode every nonzero output entry is the     *)
(* input entry multiplied by the float of 1/sqrt(rowdeg_i) and then by     *)
(* that of 1/sqrt(coldeg_j), each square root, reciprocal and product      *)
(* rounded to the matrices' precision, degrees taken from the sum of all   *)
(* inputs; a zero entry and an entry in a zero-degree row or column stay   *)
(* 0; in the example every nonzero entry is 0.4999999999999999 in double   *)
(* precision, 0.49999997 in single precision, and every zero entry stays 0.*)
C14_SymmetricRounded ==
    SymmetricRun =>
        /\ res.status = "ok"
        /\ \A e \in Entries :
               LET a == data.adjacencies[e[1]][e[2]][e[3]]
                   v == res.value[e[1]][e[2]][e[3]]
               IN  /\ IF a = 0 \/ RowDeg(e[2]) = 0 \/ ColDeg(e[3]) = 0
                      THEN v = FZero
                      ELSE v = fl_mul(fl_mul(degree_inv_sqrt[Precision][RowDeg(e[2])],
                                             fl_int(a, Precision), Precision),
                                      degree_inv_sqrt[Precision][ColDeg(e[3])], Precision)
                   /\ (data.adjacencies = ExampleInput /\ a # 0) =>
                          v = IF data.dtype = "float64" THEN BelowHalf64 ELSE BelowHalf32

\* the example has been normalized in symmetric mode, in double precision
C14_Witness ==
    /\ SymmetricRun
    /\ data.adjacencies = ExampleInput
    /\ data.dtype = "float64"
    /\ res.value[1][1][1] = BelowHalf64
    /\ res.value[1][1][2] = FZero

----------------------------------------------------------------------------
(* C15, vocabulary: the edges of a ratio-split run in input order, and the *)
(* least whole number not below n * num / den.                             *)
RatioRun(o) == o.op = "ratio" /\ GridBuilt(o)

InputPairs == pairs_of(Records.u_nodes, Records.v_nodes)

CeilOf(n, num, den) == CHOOSE k \in 0..n : k * den >= n * num /\ (k = 0 \/ (k - 1) * den < n * num)

\* the returned pairs of a part
PartPairs(u_idx, v_idx) == [i \in 1..Len(u_idx) |-> <<u_idx[i], v_idx[i]>>]

\* the input edges at positions from + 1 .. from + count
Stretch(from, count) == [i \in 1..count |-> InputPairs[from + i]]

(* C15 as stated: for every number N >= 0 of observed edges the ratio      *)
(* split returns exactly ceil(0.1*N) test edges from the end of the input  *)
(* order, exactly ceil(0.045*N) validation edges right before them, and    *)
(* the remaining N - ceil(0.1*N) - ceil(0.045*N) edges from the start as   *)
(* train, also for N = 1.                                                  *)
C15_RatioCountsAllN ==
    (RatioRun(res) /\ ~res.testing) =>
        LET N  == Len(InputPairs)
            nt == CeilOf(N, 1, 10)
            nv == CeilOf(N, 45, 1000)
        IN  /\ Returned(res)
            /\ N - nt - nv >= 0
            /\ PartPairs(res.out.u_test_idx, res.out.v_test_idx) = Stretch(N - nt, nt)
            /\ PartPairs(res.out.u_val_idx, res.out.v_val_idx) = Stretch(N - nt - nv, nv)
            /\ PartPairs(res.out.u_train_idx, res.out.v_train_idx) = Stretch(0, N - nt - nv)

(* C15 as amended: the same for every N >= 2; for N = 1 the single edge is *)
(* the test edge and validation and train are empty; for N = 0 the run     *)
(* ends in an error and returns nothing.  (With testing=True the train     *)
(* arrays hold the train edges followed by the validation edges.)          *)
C15_RatioCounts ==
    RatioRun(res) =>
        LET N  == Len(InputPairs)
            nt == CeilOf(N, 1, 10)
            nv == CeilOf(N, 45, 1000)
        IN  CASE N = 0 -> res.status = "ValueError" /\ res.out = NoArrays
              [] N = 1 -> /\ Returned(res)
                          /\ PartPairs(res.out.u_test_idx, res.out.v_test_idx) = InputPairs
                          /\ res.out.u_val_idx = <<>> /\ res.out.v_val_idx = <<>>
                          /\ res.out.u_train_idx = <<>> /\ res.out.v_train_idx = <<>>
              [] OTHER -> /\ Returned(res)
                          /\ PartPairs(res.out.u_test_idx, res.out.v_test_idx) = Stretch(N - nt, nt)
                          /\ PartPairs(res.out.u_val_idx, res.out.v_val_idx) = Stretch(N - nt - nv, nv)
                          /\ PartPairs(res.out.u_train_idx, res.out.v_train_idx) =
                                 IF res.testing
                                 THEN Stretch(0, N - nt - nv) \o Stretch(N - nt - nv, nv)
                                 ELSE Stretch(0, N - nt - nv)

\* a returned split of three different edges: one train, one validation,
\* one test edge
C15_Witness ==
    /\ RatioRun(res) /\ ~res.testing /\ Returned(res)
    /\ Len(InputPairs) = 3
    /\ Len(res.out.u_train_idx) = 1 /\ Len(res.out.u_val_idx) = 1 /\ Len(res.out.u_test_idx) = 1
    /\ InputPairs[1] # InputPairs[2] /\ InputPairs[2] # InputPairs[3]

----------------------------------------------------------------------------
(* C16: for a training file of T rows and a test file of S rows the        *)
(* official-file split returns ceil(0.2*T) validation edges, T minus that  *)
(* many train edges and S test edges; the validation edges are the first   *)
(* ceil(0.2*T) of the shuffled training rows, the train edges the rest;    *)
(* validation followed by train is a permutation of the training rows,     *)
(* and every returned flat index is that of the pair at its position.      *)
(* (With testing=True the train arrays hold the train edges followed by    *)
(* the validation edges.)                                                  *)
Count(x, p) == Cardinality({i \in 1..Len(x) : x[i] = p})

\* the training-file rows as dense (user, item) pairs, in file order
TrainingRows == PySlice(pairs_of(Records.u_nodes, Records.v_nodes), 0, Len(data.train))

\* the same rows in the order of the seed-42 shuffle
ShuffledTrainingRows == TakeAt(TrainingRows, shuffle(PyRange(Len(data.train)), <<SplitSeed, 0>>)[1])

C16_OfficialCounts ==
    (res.op = "official" /\ Returned(res)) =>
        LET T  == Len(data.train)
            nv == CeilOf(T, 1, 5)
            V  == PartPairs(res.out.u_val_idx, res.out.v_val_idx)
            R  == PySlice(PartPairs(res.out.u_train_idx, res.out.v_train_idx), 0, T - nv)
            Tr == PartPairs(res.out.u_train_idx, res.out.v_train_idx)
        IN  /\ Len(V) = nv
            /\ Len(res.out.u_test_idx) = Len(data.test)
            /\ Tr = IF res.testing THEN R \o V ELSE R
            /\ Len(R) = T - nv
            /\ V = PySlice(ShuffledTrainingRows, 0, nv)
            /\ R = PySlice(ShuffledTrainingRows, nv, T)
            /\ \A p \in Range(TrainingRows) \cup Range(V \o R) : Count(V \o R, p) = Count(TrainingRows, p)
            /\ \A i \in 1..Len(V) : res.out.val_idx[i] = Flat(V[i][1], V[i][2], res.num_items)
            /\ \A i \in 1..Len(Tr) : res.out.train_idx[i] = Flat(Tr[i][1], Tr[i][2], res.num_items)
            /\ \A i \in 1..Len(res.out.test_idx) :
                   res.out.test_idx[i] = Flat(res.out.u_test_idx[i], res.out.v_test_idx[i], res.num_items)

\* two different training rows, which the shuffle exchanged: the second row
\* is the validation edge, the first the train edge
C16_Witness ==
    /\ res.op = "official" /\ Returned(res) /\ ~res.testing
    /\ Len(data.train) = 2
    /\ TrainingRows[1] # TrainingRows[2]
    /\ PartPairs(res.out.u_val_idx, res.out.v_val_idx) = <<TrainingRows[2]>>
    /\ PartPairs(res.out.u_train_idx, res.out.v_train_idx) = <<TrainingRows[1]>>

----------------------------------------------------------------------------
(* Side-information feature matrices of the MovieLens loaders.             *)
(* A side file is a sequence of rows <<raw id, categories>>; ids is the    *)
(* set of raw ids the rating files mapped (the keys of u_dict or v_dict).  *)

PosIn(order, f) == CHOOSE i \in 1..Len(order) : order[i] = f

\* occupation_dict = {f: i for i, f in enumerate(occupation, start=2)}
occupation_dict(occupation) == [f \in Range(occupation) |-> PosIn(occupation, f) + 1]

\* num_feats = 2 + len(occupation_dict)
ml_100k_num_feats(occupation) == 2 + Len(occupation)

\* the user loop writes column 0 (age), column 1 (gender) and the
\* occupation column of every user in u_dict
ml_100k_user_columns(users, ids, occupation) ==
    UNION {{0, 1, occupation_dict(occupation)[users[i][2]]} :
              i \in {j \in 1..Len(users) : users[j][1] \in ids}}

\* genres_dict = {g: idx for idx, g in enumerate(genres)}
genres_dict(genres) == [g \in Range(genres) |-> PosIn(genres, g) - 1]

\* the item loop writes genres_dict[g] for every genre g of a movie in v_dict
ml_1m_item_columns(movies, ids, genres) ==
    UNION {{genres_dict(genres)[movies[i][2][k]] : k \in 1..Len(movies[i][2])} :
              i \in {j \in 1..Len(movies) : movies[j][1] \in ids}}

\* feats = np.unique(users_df[header].values).tolist(), for column k
feats_of(users, k) == SortedSeq({users[i][2][k] : i \in 1..Len(users)})

\* cntr when column k is reached: the sizes of the dictionaries before it
RECURSIVE cntr_at(_, _)
cntr_at(users, k) == IF k = 1 THEN 0 ELSE cntr_at(users, k - 1) + Len(feats_of(users, k - 1))

\* feat_dicts[k] = {f: i for i, f in enumerate(feats, start=cntr)}
feat_dicts(users, k) ==
    [f \in Range(feats_of(users, k)) |-> cntr_at(users, k) + PosIn(feats_of(users, k), f) - 1]

\* num_feats = sum(len(d) for d in feat_dicts), over ncols columns
ml_1m_num_feats(users, ncols) == cntr_at(users, ncols + 1)

\* the user loop writes feat_dicts[k][row[header]] for every column of a
\* user in u_dict
ml_1m_user_columns(users, ids, ncols) ==
    UNION {{feat_dicts(users, k)[users[i][2][k]] : k \in 1..ncols} :
              i \in {j \in 1..Len(users) : users[j][1] \in ids}}

\* cols = users_df.columns.values[1:] of ['user_id', 'gender', 'age',
\* 'occupation', 'zip-code']
UserCols == 4

\* side files of at most two rows over ids 0 (unrated) and 1 (rated)
OccupationFiles == SeqsUpTo(CatalogRows, 1, 2)

GenreFiles == SeqsUpTo({0, 1} \X SeqsUpTo(Authors, 1, 2), 1, 2)

UserFiles == SeqsUpTo({0, 1} \X [1..UserCols -> 1..MaxFeat], 1, 2)

----------------------------------------------------------------------------
(* C17 *)

\* the columns the book feature loop wrote in the last run: column 0 (year)
\* and the author column of every catalogued book of v_dict
BookColumns ==
    LET cols == book_columns_written(data.catalog, data.id_kind,
                                     books_records(data, rng).v_dict, data.author_order)
    IN  IF cols = {} THEN {} ELSE {0} \cup cols

ML100kUsersInRange ==
    \A users \in OccupationFiles :
        \A occupation \in Orders({users[i][2] : i \in 1..Len(users)}) :
            ml_100k_user_columns(users, {1}, occupation) \subseteq 0..(ml_100k_num_feats(occupation) - 1)

ML1mItemsInRange ==
    \A movies \in GenreFiles :
        \A genres \in Orders(UNION {Range(movies[i][2]) : i \in 1..Len(movies)}) :
            ml_1m_item_columns(movies, {1}, genres) \subseteq 0..(Len(genres) - 1)

ML1mUsersInRange ==
    \A users \in UserFiles :
        ml_1m_user_columns(users, {1}, UserCols) \subseteq 0..(ml_1m_num_feats(users, UserCols) - 1)

\* C17: every column index the feature assembly assigns lies within
\* [0, width) of the matrix it writes: MovieLens-100k users, MovieLens-1M
\* users and items, and the author columns of the Book-Crossing items, so
\* that no book run stops with an index error in the feature loop.
C17_ColumnsInRange ==
    /\ ML100kUsersInRange
    /\ ML1mItemsInRange
    /\ ML1mUsersInRange
    /\ (res.op = "books" /\ "features" \in Range(res.steps)) =>
           /\ BookColumns \subseteq 0..(num_book_feats(data.author_order) - 1)
           /\ res.status # "IndexError"

----------------------------------------------------------------------------
(* C18 *)

\* the labels the last run returned for its train, validation and test edges
ReturnedLabels ==
    Range(res.out.train_labels) \cup Range(res.out.val_labels) \cup Range(res.out.test_labels)

\* C18: in the pre-masked split, whatever the rating matrix M and the masks
\* Otraining and Otest are, every returned train, validation and test label
\* is a class index in 0..K-1 and never the sentinel -1: no mask position
\* whose cell of M holds no rating becomes a returned edge.
C18_NoSentinelLabels ==
    (res.op = "monti" /\ Returned(res)) =>
        /\ ReturnedLabels \subseteq 0..(Len(res.class_values) - 1)
        /\ neutral_rating \notin ReturnedLabels
        /\ \A c \in data.Otraining \cup data.Otest : data.M[c] # 0

====
